---- MODULE Spec2Model ----
(***************************************************************************)
(* Wave-energy buoy optimisation: the shared wave state of config.py, the  *)
(* loader and forcing lookup of wave_processing.py, the objective function *)
(* of optimization.py and the set-up steps of main.py and param_scan.py.   *)
(*                                                                         *)
(* Numbers.  Python floats are modelled as exact rationals [num, den] in   *)
(* lowest terms (den > 0), so equal values are equal records.  Units:      *)
(* time s, length m, velocity m/s, mass t (1000 kg), damping kN.s/m,       *)
(* force kN, power kW.  In these units MASS_BOUNDS = (20, 200),            *)
(* DAMPING_BOUNDS = (10, 1000), MAX_PTO_FORCE = 1500 and the penalty       *)
(* 1e10 W = 10^7 kW.                                                       *)
(*                                                                         *)
(* Python namespaces.  A star-import from config copies config's bindings  *)
(* into the importing module when the import statement runs; a later       *)
(* assignment to config.X rebinds config's attribute only.  The model keeps *)
(* config's attributes (named config_X) and the optimization module's own  *)
(* binding of WAVE_TIME (optimization_WAVE_TIME) as separate variables.    *)
(***************************************************************************)
EXTENDS Integers, Sequences, FiniteSets, TLC

VARIABLES
    PTO_EFFICIENCY,                 \* config.PTO_EFFICIENCY (a switch edited in config.py)
    RADIATION_DAMPING,              \* config.RADIATION_DAMPING
    VISCOUS_DRAG,                   \* config.VISCOUS_DRAG
    file,                           \* wave_elevation_data.csv on disk
    config_WAVE_TIME,               \* config.WAVE_TIME
    config_WAVE_VERTICAL_DISPLACEMENT,
    config_WAVE_TIME_COARSE,
    config_WAVE_VERTICAL_DISPLACEMENT_COARSE,
    config_wave_interp,             \* config.wave_interp
    optimization_imported,          \* optimization.py has been imported
    optimization_WAVE_TIME,         \* the name WAVE_TIME inside optimization.py
    imported_before_load,           \* history: the import ran before any successful load
    load_result,                    \* outcome of the last analyze_and_prepare_wave_data call
    sol_table,                      \* solve_ivp as a function: inputs seen so far -> outcome
    ret,                            \* the last objective call: inputs, path taken, result
    earlier_ret,                    \* history: some earlier objective call of the run
    fret,                           \* the last forcing lookup: inputs and result
    eret,                           \* the last call of the equation of motion
    aret,                           \* the last call of find_max_acceleration
    prog,                           \* the driving program
    pc,                             \* position of the driving program
    exit_code,                      \* process exit status (-1 while running)
    diag,                           \* diagnostic printed at exit
    sweep_pos,                      \* param_scan: index of the next sweep case
    mass_values,                    \* param_scan: the lists of the recorded cases
    damping_values,
    power_values,
    evaluated                       \* history: the objective has been called in this run

vars == <<PTO_EFFICIENCY, RADIATION_DAMPING, VISCOUS_DRAG, file, config_WAVE_TIME,
          config_WAVE_VERTICAL_DISPLACEMENT, config_WAVE_TIME_COARSE,
          config_WAVE_VERTICAL_DISPLACEMENT_COARSE, config_wave_interp,
          optimization_imported, optimization_WAVE_TIME, imported_before_load,
          load_result, sol_table, ret, earlier_ret, fret, eret, aret, prog, pc,
          exit_code, diag, sweep_pos, mass_values, damping_values, power_values,
          evaluated>>

sweep_lists == <<mass_values, damping_values, power_values>>

switches == <<PTO_EFFICIENCY, RADIATION_DAMPING, VISCOUS_DRAG>>

wave_state == <<config_WAVE_TIME, config_WAVE_VERTICAL_DISPLACEMENT,
                config_WAVE_TIME_COARSE, config_WAVE_VERTICAL_DISPLACEMENT_COARSE,
                config_wave_interp>>

----------------------------------------------------------------------------
(* Bounds of the model *)

\* number of evaluation points of the objective (2000 in the code)
EvalPoints == 2
\* resampling step handed to the loader, in s (0.1 in the code)
ResampleStep == 10

----------------------------------------------------------------------------
(* Exact rational arithmetic standing for float arithmetic *)

Abs(x) == IF x < 0 THEN -x ELSE x

RECURSIVE GCD(_, _)
GCD(a, b) == IF b = 0 THEN a ELSE GCD(b, a % b)

Rat(n, d) ==
    LET g == GCD(Abs(n), Abs(d))
        s == IF d < 0 THEN -1 ELSE 1
    IN  [num |-> (s * n) \div g, den |-> (s * d) \div g]

RInt(n) == [num |-> n, den |-> 1]
RAdd(a, b) == Rat(a.num * b.den + b.num * a.den, a.den * b.den)
RSub(a, b) == Rat(a.num * b.den - b.num * a.den, a.den * b.den)
RMul(a, b) == Rat(a.num * b.num, a.den * b.den)
RDiv(a, b) == Rat(a.num * b.den, a.den * b.num)
RNeg(a) == [num |-> -a.num, den |-> a.den]
RAbs(a) == [num |-> Abs(a.num), den |-> a.den]
RLt(a, b) == a.num * b.den < b.num * a.den
RLe(a, b) == a.num * b.den <= b.num * a.den
RCeil(a) == -((-a.num) \div a.den)

RECURSIVE RSum(_)
RSum(s) == IF s = <<>> THEN RInt(0) ELSE RAdd(Head(s), RSum(Tail(s)))

\* np.mean of a non-empty array
Mean(s) == RDiv(RSum(s), RInt(Len(s)))

\* elements of s at the indices in mask, in order (numpy boolean-mask indexing)
RECURSIVE Masked(_, _, _)
Masked(s, mask, i) ==
    IF i > Len(s) THEN <<>>
    ELSE IF i \in mask THEN <<s[i]>> \o Masked(s, mask, i + 1)
    ELSE Masked(s, mask, i + 1)

\* np.linspace(a, b, n): n points from a to b inclusive
Linspace(a, b, n) ==
    [i \in 1..n |->
        IF n = 1 THEN a
        ELSE RAdd(a, RDiv(RMul(RInt(i - 1), RSub(b, a)), RInt(n - 1)))]

----------------------------------------------------------------------------
(* config.py *)

OPTIMIZATION_PENALTY == 10000000
STEADY_STATE_CUTOFF == 50
MASS_BOUNDS == <<20, 200>>
DAMPING_BOUNDS == <<10, 1000>>
MAX_DISPLACEMENT == Rat(7, 2)
MAX_PTO_FORCE == 1500

None == [isNone |-> TRUE, x |-> <<>>, y |-> <<>>, fill_value |-> RInt(0)]

----------------------------------------------------------------------------
(* The data file *)

NaN == [nan |-> TRUE, v |-> 0]
Num(v) == [nan |-> FALSE, v |-> v]
Row(t, e) == [Time_s |-> t, Probe1_Elevation_m |-> e]

NoFile == [exists |-> FALSE, columns |-> {}, rows |-> <<>>]
CsvFile(cols, rows) == [exists |-> TRUE, columns |-> cols, rows |-> rows]
BothColumns == {"Time_s", "Probe1_Elevation_m"}

\* a 40 s record, a record of exactly 50 s, and two records longer than the cutoff
ShortFile == CsvFile(BothColumns, <<Row(Num(0), Num(0)), Row(Num(20), Num(2)),
                                    Row(Num(40), Num(-2))>>)
FiftyFile == CsvFile(BothColumns, <<Row(Num(0), Num(1)), Row(Num(50), Num(3))>>)
LongFile == CsvFile(BothColumns, <<Row(Num(0), Num(0)), Row(Num(40), Num(4)),
                                   Row(Num(70), NaN), Row(Num(100), Num(-2))>>)
OffsetFile == CsvFile(BothColumns, <<Row(Num(10), Num(2)), Row(NaN, Num(1)),
                                     Row(Num(110), Num(-3))>>)

ValidFiles == {ShortFile, FiftyFile, LongFile, OffsetFile}

\* no file; a column missing; no rows; a single row; one valid row among three
BadFiles ==
    { NoFile,
      CsvFile({"Time_s", "Probe2_Elevation_m"}, <<Row(Num(0), Num(1)), Row(Num(10), Num(2))>>),
      CsvFile(BothColumns, <<>>),
      CsvFile(BothColumns, <<Row(Num(0), Num(1))>>),
      CsvFile(BothColumns, <<Row(Num(0), Num(1)), Row(NaN, Num(2)), Row(Num(20), NaN)>>) }

Files == ValidFiles \cup BadFiles

----------------------------------------------------------------------------
(* wave_processing.py *)

isnan(c) == c.nan

Column(rows, name) == [i \in 1..Len(rows) |-> rows[i][name]]

\* scipy interp1d(x, y, kind='linear', bounds_error=False, fill_value=0.0)
interp1d(x, y) == [isNone |-> FALSE, x |-> x, y |-> y, fill_value |-> RInt(0)]

\* calling the interp1d object at t: the fill value outside [x[0], x[-1]], else
\* the line through the two samples bracketing t
InterpCall(f, t) ==
    LET n == Len(f.x)
        below == RLt(t, f.x[1])
        above == RLt(f.x[n], t)
        cnt == Cardinality({i \in 1..n : RLt(f.x[i], t)})
        lo == IF cnt < 1 THEN 1 ELSE IF cnt > n - 1 THEN n - 1 ELSE cnt
        hi == lo + 1
        slope == RDiv(RSub(f.y[hi], f.y[lo]), RSub(f.x[hi], f.x[lo]))
    IN  IF below \/ above THEN f.fill_value
        ELSE RAdd(RMul(slope, RSub(t, f.x[lo])), f.y[lo])

\* The body of analyze_and_prepare_wave_data on file f: what it returns and what
\* it would store in config.  It reads the fixed name 'wave_elevation_data.csv'.
LoadOutcome(f, dt_step) ==
    LET failed(why) == [ok |-> FALSE, error |-> why, WAVE_TIME_COARSE |-> <<>>,
                        WAVE_VERTICAL_DISPLACEMENT_COARSE |-> <<>>, WAVE_TIME |-> <<>>,
                        wave_interp |-> None, WAVE_VERTICAL_DISPLACEMENT |-> <<>>]
    IN  IF ~f.exists THEN failed("File not found")
        ELSE IF ~(BothColumns \subseteq f.columns)
        THEN failed("CSV must contain 'Time_s' and 'Probe1_Elevation_m' columns")
        ELSE
          LET time_raw == Column(f.rows, "Time_s")
              disp_raw == Column(f.rows, "Probe1_Elevation_m")
              valid_indices == {i \in 1..Len(f.rows) :
                                   ~isnan(disp_raw[i]) /\ ~isnan(time_raw[i])}
              time_valid == Masked(time_raw, valid_indices, 1)
              disp_valid == Masked(disp_raw, valid_indices, 1)
              time_coarse == [i \in 1..Len(time_valid) |-> RInt(time_valid[i].v)]
              disp_coarse == [i \in 1..Len(disp_valid) |-> RInt(disp_valid[i].v)]
          IN  IF Len(time_coarse) < 2
              THEN failed("Insufficient valid data points after removing NaN values")
              ELSE
                LET t_start == time_coarse[1]
                    t_end == time_coarse[Len(time_coarse)]
                    num_points_hires == RCeil(RDiv(RSub(t_end, t_start), dt_step)) + 1
                    wave_time == Linspace(t_start, t_end, num_points_hires)
                    interp == interp1d(time_coarse, disp_coarse)
                IN  [ok |-> TRUE, error |-> "",
                     WAVE_TIME_COARSE |-> time_coarse,
                     WAVE_VERTICAL_DISPLACEMENT_COARSE |-> disp_coarse,
                     WAVE_TIME |-> wave_time,
                     wave_interp |-> interp,
                     WAVE_VERTICAL_DISPLACEMENT |->
                         [i \in 1..Len(wave_time) |-> InterpCall(interp, wave_time[i])]]

\* analyze_and_prepare_wave_data(file_path, dt_step): config is written only when
\* the load succeeds; every failure is logged and returns False.
analyze_and_prepare_wave_data(dt_step) ==
    LET out == LoadOutcome(file, dt_step)
    IN  /\ load_result' = [outcome |-> IF out.ok THEN "True" ELSE "False",
                            error |-> out.error]
        /\ IF out.ok
           THEN /\ config_WAVE_TIME_COARSE' = out.WAVE_TIME_COARSE
                /\ config_WAVE_VERTICAL_DISPLACEMENT_COARSE' =
                       out.WAVE_VERTICAL_DISPLACEMENT_COARSE
                /\ config_WAVE_TIME' = out.WAVE_TIME
                /\ config_wave_interp' = out.wave_interp
                /\ config_WAVE_VERTICAL_DISPLACEMENT' = out.WAVE_VERTICAL_DISPLACEMENT
           ELSE UNCHANGED wave_state

create_forcing_function_clamp_edge(t, k_hydro) ==
    IF config_wave_interp.isNone THEN RInt(0)
    ELSE LET f == config_wave_interp
             n == Len(f.x)
             tc == IF RLt(t, f.x[1]) THEN f.x[1] ELSE IF RLt(f.x[n], t) THEN f.x[n] ELSE t
         IN  RMul(k_hydro, InterpCall(f, tc))

\* create_forcing_function(t, k_hydro)
create_forcing_function(t, k_hydro) ==
    IF config_wave_interp.isNone THEN RInt(0)
    ELSE LET wave_displacement == InterpCall(config_wave_interp, t)
         IN  RMul(k_hydro, wave_displacement)

----------------------------------------------------------------------------
(* main.py: the buoy arguments handed to the objective, rounded to the units *)

k_hydrostatic == 505
m_added == 155
c_rad == 402
k_drag == 26
eta_pto == Rat(9, 10)

BuoyArgs == [k_hydro |-> RInt(k_hydrostatic), m_added |-> RInt(m_added),
             c_rad |-> RInt(c_rad), k_drag |-> RInt(k_drag), eta_pto |-> eta_pto]

----------------------------------------------------------------------------
(* dynamics.py *)

DragForce_squared(k_drag_coeff, z_dot) ==
    IF VISCOUS_DRAG THEN RNeg(RMul(k_drag_coeff, RMul(z_dot, z_dot))) ELSE RInt(0)

\* line 26: F_drag = -k_drag * |z_dot| * z_dot if config.VISCOUS_DRAG else 0.0
DragForce(k_drag_coeff, z_dot) ==
    IF VISCOUS_DRAG THEN RMul(RMul(RNeg(k_drag_coeff), RAbs(z_dot)), z_dot) ELSE RInt(0)

RadiationForce_unconditional(c_rad_coeff, z_dot) == RMul(RNeg(c_rad_coeff), z_dot)

\* line 25: F_radiation = -c_rad * z_dot if config.RADIATION_DAMPING else 0.0
RadiationForce(c_rad_coeff, z_dot) ==
    IF RADIATION_DAMPING THEN RMul(RNeg(c_rad_coeff), z_dot) ELSE RInt(0)

\* buoy_equation_of_motion(t, y, m_buoy, c_pto, buoy_props): the forces it
\* computes and the list [z_dot, z_double_dot] it returns
buoy_equation_of_motion(t, y, m_buoy, c_pto, buoy_props) ==
    LET z == y[1]
        z_dot == y[2]
        m_total == RAdd(m_buoy, buoy_props.m_added)
        F_wave == create_forcing_function(t, buoy_props.k_hydro)
        F_hydrostatic == RMul(RNeg(buoy_props.k_hydro), z)
        F_pto == RMul(RNeg(c_pto), z_dot)
        F_radiation == RadiationForce(buoy_props.c_rad, z_dot)
        F_drag == DragForce(buoy_props.k_drag, z_dot)
        F_total == RAdd(RAdd(RAdd(RAdd(F_wave, F_hydrostatic), F_pto), F_radiation), F_drag)
        z_double_dot == RDiv(F_total, m_total)
    IN  [F_wave |-> F_wave, F_hydrostatic |-> F_hydrostatic, F_pto |-> F_pto,
         F_radiation |-> F_radiation, F_drag |-> F_drag, F_total |-> F_total,
         m_total |-> m_total, returned |-> <<z_dot, z_double_dot>>]

NoEquationCall ==
    [called |-> FALSE, t |-> RInt(0), y |-> <<RInt(0), RInt(0)>>, m_buoy |-> RInt(0),
     c_pto |-> RInt(0), buoy |-> BuoyArgs, wave |-> None,
     out |-> [F_wave |-> RInt(0), F_hydrostatic |-> RInt(0), F_pto |-> RInt(0),
              F_radiation |-> RInt(0), F_drag |-> RInt(0), F_total |-> RInt(0),
              m_total |-> RInt(0), returned |-> <<RInt(0), RInt(0)>>]]

----------------------------------------------------------------------------
(* analysis.py                                                              *)
(*                                                                          *)
(* Units of the peak analysis: its displacement samples are in units of     *)
(* 1e-10 m (velocities 1e-10 m/s, accelerations 1e-10 m/s^2), so that the   *)
(* tolerance 1e-10 of line 47 is the number 1.  The analysis is exercised   *)
(* on samples of zero velocity, where the equation of motion is linear in   *)
(* the displacement and the change of unit is exact.                        *)
(*                                                                          *)
(* CubicSpline (scipy, not-a-knot ends): with two, three or four samples    *)
(* every piece of the spline is the same polynomial, the one of degree      *)
(* n - 1 through the n samples.  The model keeps it in Newton form,         *)
(*   p(t) = d1 + d2 (t-x1) + d3 (t-x1)(t-x2) + d4 (t-x1)(t-x2)(t-x3),       *)
(* and handles no more than four samples.                                   *)

\* line 47: the literal 1e-10
NewtonTolerance == 1
\* line 42: range(5)
NewtonIterations == 5
\* line 67: the literal 50
AnalysisCutoff == 50

\* a numpy array or a Python list: the sequence with every element computed
Array(f) == f \o <<>>

\* an assignment statement `name = value` followed by the rest of the block,
\* written [name \in {value} |-> rest]: the value is computed, then the rest runs
\* with the name bound to it
Assign(block) == block[CHOOSE name \in DOMAIN block : TRUE]

\* np.sign
Sign(a) == IF a.num > 0 THEN 1 ELSE IF a.num < 0 THEN -1 ELSE 0

RECURSIVE DividedDifference(_, _, _, _)
DividedDifference(x, y, i, j) ==
    IF i = j THEN y[i]
    ELSE RDiv(RSub(DividedDifference(x, y, i + 1, j), DividedDifference(x, y, i, j - 1)),
              RSub(x[j], x[i]))

\* line 20: CubicSpline(t_eval, z_double_dot)
CubicSpline(x, y) ==
    [x |-> x, d |-> Array([k \in 1..Len(x) |-> DividedDifference(x, y, 1, k)])]

SplineCoefficient(spline, k) == IF k <= Len(spline.d) THEN spline.d[k] ELSE RInt(0)
SplineOffset(spline, k, t) == IF k <= Len(spline.x) THEN RSub(t, spline.x[k]) ELSE RInt(0)

\* accel_spline(t)
SplineValue(spline, t) ==
    LET u1 == SplineOffset(spline, 1, t)
        u2 == SplineOffset(spline, 2, t)
        u3 == SplineOffset(spline, 3, t)
    IN  RAdd(SplineCoefficient(spline, 1),
             RMul(u1, RAdd(SplineCoefficient(spline, 2),
                           RMul(u2, RAdd(SplineCoefficient(spline, 3),
                                         RMul(u3, SplineCoefficient(spline, 4)))))))

\* jerk_spline(t), with jerk_spline = accel_spline.derivative() (line 21)
SplineDerivative(spline, t) ==
    LET u1 == SplineOffset(spline, 1, t)
        u2 == SplineOffset(spline, 2, t)
        u3 == SplineOffset(spline, 3, t)
    IN  RAdd(SplineCoefficient(spline, 2),
             RAdd(RMul(SplineCoefficient(spline, 3), RAdd(u1, u2)),
                  RMul(SplineCoefficient(spline, 4),
                       RAdd(RMul(u1, u2), RAdd(RMul(u1, u3), RMul(u2, u3))))))

\* accel_spline.derivative(2)(t) (line 44)
SplineSecondDerivative(spline, t) ==
    LET u1 == SplineOffset(spline, 1, t)
        u2 == SplineOffset(spline, 2, t)
        u3 == SplineOffset(spline, 3, t)
    IN  RMul(RInt(2), RAdd(SplineCoefficient(spline, 3),
                           RMul(SplineCoefficient(spline, 4), RAdd(u1, RAdd(u2, u3)))))

\* lines 13-17: the acceleration at every sample, from the equation of motion
\* (the analysis names it buoy_equation_of_motion_enhanced and passes the buoy
\* coefficients one by one)
RecomputedAcceleration(t_eval, z, z_dot, m_buoy, c_pto, buoy) ==
    Array([i \in 1..Len(t_eval) |->
              buoy_equation_of_motion(t_eval[i], <<z[i], z_dot[i]>>, m_buoy, c_pto,
                                      buoy).returned[2]])

\* line 25: np.where(np.diff(np.sign(jerk_values)))[0], as the ascending list of
\* the i with sign(jerk[i]) # sign(jerk[i+1])
RECURSIVE SignChanges(_, _)
SignChanges(jerk_values, i) ==
    IF i >= Len(jerk_values) THEN <<>>
    ELSE (IF Sign(jerk_values[i + 1]) - Sign(jerk_values[i]) # 0 THEN <<i>> ELSE <<>>)
         \o SignChanges(jerk_values, i + 1)

\* lines 50-51: break, leaving root_candidate as it is
NewtonAbort(t_mid, root_candidate) ==
    [root |-> root_candidate, aborted |-> TRUE, reset |-> FALSE]

NewtonReset_keeps_iterate(t_mid, root_candidate) ==
    [root |-> root_candidate, aborted |-> FALSE, reset |-> TRUE]

\* lines 54-56: root_candidate = t_mid; break
NewtonReset(t_mid, root_candidate) ==
    [root |-> t_mid, aborted |-> FALSE, reset |-> TRUE]

\* the passes of the loop that were started when it ended with `left` to go
Passes(outcome, left) ==
    [root |-> outcome.root, aborted |-> outcome.aborted, reset |-> outcome.reset,
     iterations |-> NewtonIterations - left]

\* lines 42-56: the Newton loop with `left` iterations to go
RECURSIVE NewtonLoop(_, _, _, _, _, _)
NewtonLoop(spline, lo, hi, t_mid, root_candidate, left) ==
    IF left = 0
    THEN Passes([root |-> root_candidate, aborted |-> FALSE, reset |-> FALSE], 0)
    ELSE
      Assign([j \in {SplineDerivative(spline, root_candidate)} |->
      Assign([j_prime \in {SplineSecondDerivative(spline, root_candidate)} |->
        IF ~RLt(RInt(NewtonTolerance), RAbs(j_prime))
        THEN Passes(NewtonAbort(t_mid, root_candidate), left - 1)
        ELSE
          Assign([stepped \in {RSub(root_candidate, RDiv(j, j_prime))} |->
            IF ~(RLe(lo, stepped) /\ RLe(stepped, hi))
            THEN Passes(NewtonReset(t_mid, stepped), left - 1)
            ELSE NewtonLoop(spline, lo, hi, t_mid, stepped, left - 1)])])])

\* lines 36-59 for the sign change at i: the root appended to jerk_roots
RefineRoot(spline, t_eval, i) ==
    Assign([t_mid \in {RDiv(RAdd(t_eval[i], t_eval[i + 1]), RInt(2))} |->
    Assign([refined \in {NewtonLoop(spline, t_eval[i], t_eval[i + 1], t_mid, t_mid,
                                    NewtonIterations)} |->
      [i |-> i, t_mid |-> t_mid, root |-> refined.root, aborted |-> refined.aborted,
       reset |-> refined.reset, iterations |-> refined.iterations]])])

RootSurvives_inclusive(root, t_start) == RLe(RAdd(t_start, RInt(AnalysisCutoff)), root)

\* line 67: jerk_roots > (t_eval[0] + 50)
RootSurvives(root, t_start) == RLt(RAdd(t_start, RInt(AnalysisCutoff)), root)

MaxAccelIndex_signed(accel_at_roots) ==
    CHOOSE k \in 1..Len(accel_at_roots) :
        /\ \A l \in 1..Len(accel_at_roots) : RLe(accel_at_roots[l], accel_at_roots[k])
        /\ \A l \in 1..(k - 1) : RLt(accel_at_roots[l], accel_at_roots[k])

\* line 76: np.argmax(np.abs(accel_at_roots)), the first index of the largest
MaxAccelIndex(accel_at_roots) ==
    CHOOSE k \in 1..Len(accel_at_roots) :
        /\ \A l \in 1..Len(accel_at_roots) :
              RLe(RAbs(accel_at_roots[l]), RAbs(accel_at_roots[k]))
        /\ \A l \in 1..(k - 1) : RLt(RAbs(accel_at_roots[l]), RAbs(accel_at_roots[k]))

NoPeak == [kind |-> "return", none |-> TRUE, time |-> RInt(0), value |-> RInt(0),
           exc |-> ""]

PeakSelection_unfiltered_test(jerk_roots, roots_steady, accel_at_roots) ==
    IF Len(jerk_roots) > 0
    THEN IF Len(accel_at_roots) = 0
         THEN [kind |-> "raise", none |-> FALSE, time |-> RInt(0), value |-> RInt(0),
               exc |-> "ValueError"]
         ELSE LET max_accel_idx == MaxAccelIndex(accel_at_roots)
              IN  [kind |-> "return", none |-> FALSE, time |-> roots_steady[max_accel_idx],
                   value |-> accel_at_roots[max_accel_idx], exc |-> ""]
    ELSE NoPeak

\* lines 75-89: the peak returned, or (None, None)
PeakSelection(jerk_roots, roots_steady, accel_at_roots) ==
    IF Len(accel_at_roots) > 0
    THEN LET max_accel_idx == MaxAccelIndex(accel_at_roots)
         IN  [kind |-> "return", none |-> FALSE, time |-> roots_steady[max_accel_idx],
              value |-> accel_at_roots[max_accel_idx], exc |-> ""]
    ELSE NoPeak

\* find_max_acceleration(t_eval, z_optimal, z_dot_optimal, m_buoy, c_pto, k_hydro,
\* m_added, c_rad, k_drag, eta_pto): its locals and what it returns
find_max_acceleration(t_eval, z_optimal, z_dot_optimal, m_buoy, c_pto, buoy) ==
    Assign([z_double_dot \in {RecomputedAcceleration(t_eval, z_optimal, z_dot_optimal,
                                                     m_buoy, c_pto, buoy)} |->
    Assign([accel_spline \in {CubicSpline(t_eval, z_double_dot)} |->
    Assign([jerk_values \in {Array([i \in 1..Len(t_eval) |->
                                       SplineDerivative(accel_spline, t_eval[i])])} |->
    Assign([sign_changes \in {SignChanges(jerk_values, 1)} |->
    Assign([refinements \in {Array([k \in 1..Len(sign_changes) |->
                                       RefineRoot(accel_spline, t_eval,
                                                  sign_changes[k])])} |->
    Assign([jerk_roots \in {Array([k \in 1..Len(refinements) |->
                                      refinements[k].root])} |->
    Assign([steady_state_mask \in {{k \in 1..Len(jerk_roots) :
                                       RootSurvives(jerk_roots[k], t_eval[1])}} |->
    Assign([roots_steady \in {Masked(jerk_roots, steady_state_mask, 1)} |->
    Assign([accel_at_roots \in {Array([k \in 1..Len(roots_steady) |->
                                          SplineValue(accel_spline, roots_steady[k])])} |->
      [z_double_dot |-> z_double_dot, accel_spline |-> accel_spline,
       jerk_values |-> jerk_values, refinements |-> refinements,
       jerk_roots |-> jerk_roots, roots_steady |-> roots_steady,
       accel_at_roots |-> accel_at_roots,
       returned |-> PeakSelection(jerk_roots, roots_steady, accel_at_roots)]])])])])])])])])])

NoAnalysis ==
    [called |-> FALSE, t_eval |-> <<>>, z |-> <<>>, z_dot |-> <<>>, m_buoy |-> RInt(0),
     c_pto |-> RInt(0), buoy |-> BuoyArgs, wave |-> None,
     out |-> [z_double_dot |-> <<>>, accel_spline |-> [x |-> <<>>, d |-> <<>>],
              jerk_values |-> <<>>, refinements |-> <<>>, jerk_roots |-> <<>>,
              roots_steady |-> <<>>, accel_at_roots |-> <<>>, returned |-> NoPeak]]

----------------------------------------------------------------------------
(* solve_ivp (scipy): a deterministic function of its inputs whose values   *)
(* the model does not compute.  An outcome is a raised exception, a         *)
(* reported failure, or a dense solution, given by its samples (z, z_dot)   *)
(* on the evaluation grid.                                                  *)

\* sample values: on both limits for c_pto = 1000, beyond the displacement
\* limit, beyond the force limit for c_pto = 1000 only
SamplePoints == { [z |-> Rat(7, 2), z_dot |-> Rat(-3, 2)],
                  [z |-> RInt(-4), z_dot |-> RInt(0)],
                  [z |-> RInt(0), z_dot |-> RInt(-2)] }

NoSol == [status |-> "none", z |-> <<>>, z_dot |-> <<>>]

Outcomes ==
    { [status |-> "raised", z |-> <<>>, z_dot |-> <<>>],
      [status |-> "failed", z |-> <<>>, z_dot |-> <<>>] }
    \cup { [status |-> "ok", z |-> [i \in 1..EvalPoints |-> tr[i].z],
            z_dot |-> [i \in 1..EvalPoints |-> tr[i].z_dot]] :
           tr \in [1..EvalPoints -> SamplePoints] }

\* candidates: each bound from just outside and exactly on it, and a candidate
\* with no PTO damping at all
Candidates == { <<19, 10>>, <<20, 9>>, <<20, 10>>, <<200, 1000>>, <<201, 1000>>,
                <<200, 1001>>, <<110, 0>> }

----------------------------------------------------------------------------
(* optimization.py *)

\* the literal 1e10 the objective returns (lines 13, 16, 37, 41, 52, 56, 68)
Penalty == RInt(10000 * 1000)

MassInBounds_strict(m_buoy) == MASS_BOUNDS[1] < m_buoy /\ m_buoy < MASS_BOUNDS[2]

\* line 12
MassInBounds(m_buoy) == MASS_BOUNDS[1] <= m_buoy /\ m_buoy <= MASS_BOUNDS[2]

DampingInBounds_nonnegative(c_pto) == 0 <= c_pto /\ c_pto <= DAMPING_BOUNDS[2]

\* line 15
DampingInBounds(c_pto) == DAMPING_BOUNDS[1] <= c_pto /\ c_pto <= DAMPING_BOUNDS[2]

\* line 44: t_eval = np.linspace(t_span[0], t_span[1], 2000)
EvalGrid(t_span) == Linspace(t_span[1], t_span[2], EvalPoints)

DisplacementExceeded_no_abs(z) ==
    \E i \in 1..Len(z) : RLt(MAX_DISPLACEMENT, z[i])

\* line 51: np.any(np.abs(z) > MAX_DISPLACEMENT)
DisplacementExceeded(z) ==
    \E i \in 1..Len(z) : RLt(MAX_DISPLACEMENT, RAbs(z[i]))

\* lines 48, 55: np.any(np.abs(c_pto * z_dot) > MAX_PTO_FORCE)
ForceExceeded(c_pto, z_dot) ==
    \E i \in 1..Len(z_dot) : RLt(RInt(MAX_PTO_FORCE), RAbs(RMul(RInt(c_pto), z_dot[i])))

SteadyStateMask_inclusive(t_eval, t_span) ==
    {i \in 1..Len(t_eval) : RLe(RAdd(t_span[1], RInt(50)), t_eval[i])}

\* line 59: steady_state_mask = t_eval > (t_span[0] + 50)
SteadyStateMask(t_eval, t_span) ==
    {i \in 1..Len(t_eval) : RLt(RAdd(t_span[1], RInt(50)), t_eval[i])}

AveragingSamples_no_fallback(z_dot, mask) == Masked(z_dot, mask, 1)

\* lines 60-64: the steady-state velocities, or all of them when there are none
AveragingSamples(z_dot, mask) ==
    LET z_dot_steady == Masked(z_dot, mask, 1)
    IN  IF Len(z_dot_steady) = 0 THEN z_dot ELSE z_dot_steady

\* lines 71-77
InstantPowerElectrical(c_pto, eta, z_dot_steady) ==
    LET instant_power_mechanical ==
            [i \in 1..Len(z_dot_steady) |->
                RMul(RInt(c_pto), RMul(z_dot_steady[i], z_dot_steady[i]))]
    IN  IF PTO_EFFICIENCY
        THEN [i \in 1..Len(z_dot_steady) |-> RMul(eta, instant_power_mechanical[i])]
        ELSE instant_power_mechanical

\* what one call leaves behind: how it ended, and the path it took
Result(kind, value, exc, stage, t_span, sol) ==
    [kind |-> kind, value |-> value, exc |-> exc, stage |-> stage,
     t_span |-> t_span, sol |-> sol]

SolverFailure_propagates(sol, t_span) ==
    IF sol.status = "raised"
    THEN Result("raise", RInt(0), "Exception", "solver", t_span, sol)
    ELSE Result("return", Penalty, "", "solver", t_span, sol)

\* lines 23-41: solve_ivp raised (except Exception) or reported not sol.success
SolverFailure(sol, t_span) == Result("return", Penalty, "", "solver", t_span, sol)

\* objective_function_enhanced(params, k_hydro, m_added, c_rad, k_drag, eta_pto);
\* sol is what solve_ivp yields for the inputs of this call
objective_function_enhanced(params, buoy, sol) ==
    LET m_buoy == params[1]
        c_pto == params[2]
        WAVE_TIME == optimization_WAVE_TIME
    IN  IF ~MassInBounds(m_buoy)
        THEN Result("return", Penalty, "", "bounds", <<>>, NoSol)
        ELSE IF ~DampingInBounds(c_pto)
        THEN Result("return", Penalty, "", "bounds", <<>>, NoSol)
        ELSE IF Len(WAVE_TIME) = 0
        THEN Result("raise", RInt(0), "IndexError", "t_span", <<>>, NoSol)
        ELSE
          LET t_span == <<WAVE_TIME[1], WAVE_TIME[Len(WAVE_TIME)]>>
          IN  IF sol.status # "ok"
              THEN SolverFailure(sol, t_span)
              ELSE
                LET t_eval == EvalGrid(t_span)
                    z == sol.z
                    z_dot == sol.z_dot
                IN  IF DisplacementExceeded(z)
                    THEN Result("return", Penalty, "", "displacement", t_span, sol)
                    ELSE IF ForceExceeded(c_pto, z_dot)
                    THEN Result("return", Penalty, "", "force", t_span, sol)
                    ELSE
                      LET steady_state_mask == SteadyStateMask(t_eval, t_span)
                          z_dot_steady == AveragingSamples(z_dot, steady_state_mask)
                      IN  IF Len(z_dot_steady) = 0
                          THEN Result("return", Penalty, "", "empty", t_span, sol)
                          ELSE
                            LET instant_power_electrical ==
                                    InstantPowerElectrical(c_pto, buoy.eta_pto, z_dot_steady)
                                avg_power == Mean(instant_power_electrical)
                            IN  Result("return", RNeg(avg_power), "", "score", t_span, sol)

\* the call reaches solve_ivp
ReachesSolver(params) ==
    /\ MassInBounds(params[1])
    /\ DampingInBounds(params[2])
    /\ Len(optimization_WAVE_TIME) > 0

SolverInputs_warm_start(params, buoy) ==
    [params |-> params, buoy |-> buoy,
     t_span |-> <<optimization_WAVE_TIME[1],
                  optimization_WAVE_TIME[Len(optimization_WAVE_TIME)]>>,
     wave_interp |-> config_wave_interp,
     y0 |-> IF ret.res.sol.status = "ok"
            THEN <<ret.res.sol.z[EvalPoints], ret.res.sol.z_dot[EvalPoints]>>
            ELSE <<RInt(0), RInt(0)>>]

\* the inputs solve_ivp integrates: candidate, buoy arguments, time span, and the
\* interpolator the derivative function reads through create_forcing_function
SolverInputs(params, buoy) ==
    [params |-> params, buoy |-> buoy,
     t_span |-> <<optimization_WAVE_TIME[1],
                  optimization_WAVE_TIME[Len(optimization_WAVE_TIME)]>>,
     wave_interp |-> config_wave_interp]

----------------------------------------------------------------------------
(* Calls *)

NoCall == [params |-> <<>>, buoy |-> BuoyArgs, wave |-> None]
NoRet == [call |-> NoCall, res |-> Result("none", RInt(0), "", "", <<>>, NoSol)]
NoLookup == [t |-> RInt(0), k_hydro |-> RInt(0), wave |-> None, value |-> RInt(0),
             called |-> FALSE]

Known(inputs) == \E e \in sol_table : e.inputs = inputs
Lookup(inputs) == (CHOOSE e \in sol_table : e.inputs = inputs).outcome

\* solve_ivp returns what it returned before for the same inputs, and any outcome
\* for inputs it has not seen
SolveIvp(params, buoy, sol) ==
    IF ReachesSolver(params)
    THEN LET inputs == SolverInputs(params, buoy)
         IN  /\ sol \in Outcomes
             /\ IF Known(inputs)
                THEN sol = Lookup(inputs) /\ UNCHANGED sol_table
                ELSE sol_table' = sol_table \cup {[inputs |-> inputs, outcome |-> sol]}
    ELSE sol = NoSol /\ UNCHANGED sol_table

\* one call objective_function_enhanced(params, *args) by whoever drives
ObjectiveCall(params, sol, remember) ==
    /\ optimization_imported
    /\ SolveIvp(params, BuoyArgs, sol)
    /\ ret' = [call |-> [params |-> params, buoy |-> BuoyArgs, wave |-> config_wave_interp],
               res |-> objective_function_enhanced(params, BuoyArgs, sol)]
    /\ earlier_ret' \in (IF remember THEN {earlier_ret, ret} ELSE {earlier_ret})
    /\ evaluated' = TRUE

\* the import statements at the top of a program: optimization.py runs
\* `from config import *` and binds its own WAVE_TIME to config's current array
ImportModules ==
    /\ ~optimization_imported
    /\ optimization_imported' = TRUE
    /\ optimization_WAVE_TIME' = config_WAVE_TIME
    /\ imported_before_load' = config_wave_interp.isNone

----------------------------------------------------------------------------
(* Client programs: a caller of the loader and the objective ("evaluate"),  *)
(* the same keeping one earlier call for comparison ("repeat"), a caller of *)
(* the loader and the forcing lookup ("lookup"), a caller of the loader and *)
(* the equation of motion ("dynamics"), a caller of the peak analysis       *)
(* ("analysis") and a caller of every operation that reads the shared wave  *)
(* state ("share")                                                          *)

Clients == {"evaluate", "repeat", "lookup", "dynamics", "share"}

ClientImport ==
    /\ prog \in {"evaluate", "repeat", "share"}
    /\ ImportModules
    /\ UNCHANGED <<switches, sweep_lists, eret, aret, file, wave_state, load_result, sol_table,
                   ret, earlier_ret, fret, prog, pc, exit_code, diag, sweep_pos, evaluated>>

ClientLoad ==
    /\ prog \in Clients
    /\ analyze_and_prepare_wave_data(RInt(ResampleStep))
    /\ UNCHANGED <<switches, sweep_lists, eret, aret, file, optimization_imported,
                   optimization_WAVE_TIME, imported_before_load, sol_table, ret,
                   earlier_ret, fret, prog, pc, exit_code, diag, sweep_pos, evaluated>>

ClientObjective ==
    /\ prog = "evaluate"
    /\ \E params \in Candidates, sol \in Outcomes \cup {NoSol} :
          ObjectiveCall(params, sol, FALSE)
    /\ UNCHANGED <<switches, sweep_lists, eret, aret, file, wave_state, optimization_imported,
                   optimization_WAVE_TIME, imported_before_load, load_result, fret, prog,
                   pc, exit_code, diag, sweep_pos>>

ClientObjectiveAgain ==
    /\ prog = "repeat"
    /\ \E params \in Candidates, sol \in Outcomes \cup {NoSol} :
          ObjectiveCall(params, sol, TRUE)
    /\ UNCHANGED <<switches, sweep_lists, eret, aret, file, wave_state, optimization_imported,
                   optimization_WAVE_TIME, imported_before_load, load_result, fret, prog,
                   pc, exit_code, diag, sweep_pos>>

LookupTimes == {RInt(-10), RInt(0), RInt(10), Rat(45, 2), RInt(50), RInt(100), RInt(110),
                RInt(120)}
Stiffnesses == {RInt(k_hydrostatic), RInt(1), RInt(-2)}

ClientForcing ==
    /\ prog = "lookup"
    /\ \E t \in LookupTimes, k \in Stiffnesses :
          fret' = [t |-> t, k_hydro |-> k, wave |-> config_wave_interp,
                   value |-> create_forcing_function(t, k), called |-> TRUE]
    /\ UNCHANGED <<switches, sweep_lists, eret, aret, file, wave_state, optimization_imported,
                   optimization_WAVE_TIME, imported_before_load, load_result, sol_table,
                   ret, earlier_ret, prog, pc, exit_code, diag, sweep_pos, evaluated>>

\* states and candidates handed to the equation of motion: rising, falling and
\* resting, below, at and above the still-water level
EquationTimes == {RInt(0), RInt(10), Rat(45, 2)}
EquationStates == { <<z, z_dot>> : z \in {RInt(-4), RInt(0), Rat(7, 2)},
                                   z_dot \in {RInt(-2), Rat(-3, 2), RInt(0), Rat(1, 2)} }
EquationCandidates == { <<20, 10>>, <<200, 1000>> }

\* one call buoy_equation_of_motion(t, y, m_buoy, c_pto, buoy_props)
EquationCall(t, y, params) ==
    eret' = [called |-> TRUE, t |-> t, y |-> y, m_buoy |-> RInt(params[1]),
             c_pto |-> RInt(params[2]), buoy |-> BuoyArgs, wave |-> config_wave_interp,
             out |-> buoy_equation_of_motion(t, y, RInt(params[1]), RInt(params[2]),
                                             BuoyArgs)]

ClientEquation ==
    /\ prog = "dynamics"
    /\ \E t \in EquationTimes, y \in EquationStates, params \in EquationCandidates :
          EquationCall(t, y, params)
    /\ UNCHANGED <<switches, sweep_lists, aret, file, wave_state, optimization_imported,
                   optimization_WAVE_TIME, imported_before_load, load_result, sol_table,
                   ret, earlier_ret, fret, prog, pc, exit_code, diag, sweep_pos,
                   evaluated>>

\* the candidate handed to the peak analysis: with main.py's buoy its total
\* mass is 202 t, so a buoy at rest at displacement z accelerates at -(5/2) z
AnalysisCandidate == <<47, 100>>

\* the samples of a buoy momentarily at rest at each time of the grid, placed
\* where (with no wave force) its accelerations are accel
Resting(t_eval, accel) ==
    [t_eval |-> t_eval,
     z |-> [i \in 1..Len(t_eval) |-> RMul(Rat(-2, 5), accel[i])],
     z_dot |-> [i \in 1..Len(t_eval) |-> RInt(0)]]

UniformGrid(t_start, step, n) == [i \in 1..n |-> RInt(t_start + (i - 1) * step)]

\* three samples: every rise and fall between four acceleration levels
AccelerationLevels == {RInt(-5000), RInt(0), RInt(5000), RInt(10000)}
ParabolaInputs ==
    { Resting(g, a) : g \in {UniformGrid(0, 50, 3), UniformGrid(0, 60, 3)},
                      a \in [1..3 -> AccelerationLevels] }

\* four samples: two steady-state peaks of different and of equal size; a jerk
\* whose slope is near zero one Newton step away from the midpoint; a jerk whose
\* first Newton step leaves the bracket
CubicInputs ==
    { Resting(UniformGrid(-50, 50, 4),
              <<RInt(-34250), RInt(-3000), RInt(-1750), RInt(-500)>>),
      Resting(UniformGrid(-50, 50, 4),
              <<RInt(-32500), RInt(-1250), RInt(0), RInt(1250)>>),
      Resting(UniformGrid(0, 60, 4),
              <<RInt(-1650), RInt(0), RInt(1650), RInt(14100)>>),
      Resting(UniformGrid(0, 90, 4),
              <<RInt(6325), RInt(24550), RInt(-54425), RInt(206800)>>) }

\* four samples: one peak exactly at the cutoff and a smaller one after it
CutoffInputs ==
    { Resting(UniformGrid(0, 100, 4),
              <<RInt(20000), RInt(22500), RInt(-5000), RInt(-2500)>>) }

\* two samples, and three samples of a motion so small that the slope of the
\* jerk is within the tolerance at the midpoint already
LineInputs == { Resting(UniformGrid(0, 100, 2), <<RInt(0), RInt(5000)>>) }
SmallInputs == { Resting(UniformGrid(0, 60, 3), <<RInt(0), RInt(100), RInt(0)>>) }

AnalysisInputs ==
    ParabolaInputs \cup CubicInputs \cup CutoffInputs \cup LineInputs \cup SmallInputs

\* one call find_max_acceleration(t_eval, z_optimal, z_dot_optimal, m_buoy, c_pto, ...)
AnalysisCall(inp, params) ==
    aret' = [called |-> TRUE, t_eval |-> inp.t_eval, z |-> inp.z, z_dot |-> inp.z_dot,
             m_buoy |-> RInt(params[1]), c_pto |-> RInt(params[2]), buoy |-> BuoyArgs,
             wave |-> config_wave_interp,
             out |-> find_max_acceleration(inp.t_eval, inp.z, inp.z_dot, RInt(params[1]),
                                           RInt(params[2]), BuoyArgs)]

ClientAnalysis ==
    /\ prog = "analysis"
    /\ \E inp \in AnalysisInputs : AnalysisCall(inp, AnalysisCandidate)
    /\ UNCHANGED <<switches, sweep_lists, eret, file, wave_state, optimization_imported,
                   optimization_WAVE_TIME, imported_before_load, load_result, sol_table,
                   ret, earlier_ret, fret, prog, pc, exit_code, diag, sweep_pos,
                   evaluated>>

\* the client of every operation that reads the shared wave state: it calls the
\* loader, the import, the forcing lookup, the equation of motion, the objective
\* and the peak analysis in any order, each on a few inputs
ShareTimes == {RInt(10), RInt(110)}
ShareStates == { <<RInt(0), Rat(1, 2)>>, <<RInt(-4), RInt(0)>> }
ShareCandidates == { <<20, 10>>, <<201, 1000>> }
ShareOutcomes ==
    { o \in Outcomes :
         \/ o.status = "failed"
         \/ o.status = "ok" /\ \A i \in 1..EvalPoints :
                                  o.z[i] = Rat(7, 2) /\ o.z_dot[i] = Rat(-3, 2) }
ShareInputs == LineInputs \cup SmallInputs

ShareForcing ==
    /\ prog = "share"
    /\ \E t \in ShareTimes :
          fret' = [t |-> t, k_hydro |-> RInt(k_hydrostatic), wave |-> config_wave_interp,
                   value |-> create_forcing_function(t, RInt(k_hydrostatic)),
                   called |-> TRUE]
    /\ UNCHANGED <<switches, sweep_lists, eret, aret, file, wave_state, optimization_imported,
                   optimization_WAVE_TIME, imported_before_load, load_result, sol_table,
                   ret, earlier_ret, prog, pc, exit_code, diag, sweep_pos, evaluated>>

ShareEquation ==
    /\ prog = "share"
    /\ \E y \in ShareStates : EquationCall(RInt(10), y, <<20, 10>>)
    /\ UNCHANGED <<switches, sweep_lists, aret, file, wave_state, optimization_imported,
                   optimization_WAVE_TIME, imported_before_load, load_result, sol_table,
                   ret, earlier_ret, fret, prog, pc, exit_code, diag, sweep_pos,
                   evaluated>>

ShareObjectiveCall ==
    /\ prog = "share"
    /\ \E params \in ShareCandidates, sol \in ShareOutcomes \cup {NoSol} :
          ObjectiveCall(params, sol, FALSE)

\* the objective storing its own copy of the time array back into config
ShareObjective_rebinds_wave_time ==
    /\ ShareObjectiveCall
    /\ config_WAVE_TIME' = optimization_WAVE_TIME
    /\ UNCHANGED <<switches, sweep_lists, eret, aret, file, config_WAVE_VERTICAL_DISPLACEMENT,
                   config_WAVE_TIME_COARSE, config_WAVE_VERTICAL_DISPLACEMENT_COARSE,
                   config_wave_interp, optimization_imported,
                   optimization_WAVE_TIME, imported_before_load, load_result, fret, prog,
                   pc, exit_code, diag, sweep_pos>>

ShareObjective ==
    /\ ShareObjectiveCall
    /\ UNCHANGED <<switches, sweep_lists, eret, aret, file, wave_state, optimization_imported,
                   optimization_WAVE_TIME, imported_before_load, load_result, fret, prog,
                   pc, exit_code, diag, sweep_pos>>

ShareAnalysis ==
    /\ prog = "share"
    /\ \E inp \in ShareInputs : AnalysisCall(inp, AnalysisCandidate)
    /\ UNCHANGED <<switches, sweep_lists, eret, file, wave_state, optimization_imported,
                   optimization_WAVE_TIME, imported_before_load, load_result, sol_table,
                   ret, earlier_ret, fret, prog, pc, exit_code, diag, sweep_pos,
                   evaluated>>

----------------------------------------------------------------------------
(* main.py *)

\* lines 6-14
MainImports ==
    /\ prog = "main" /\ pc = "start"
    /\ ImportModules
    /\ pc' = "setup"
    /\ UNCHANGED <<switches, sweep_lists, eret, aret, file, wave_state, load_result, sol_table,
                   ret, earlier_ret, fret, prog, exit_code, diag, sweep_pos, evaluated>>

\* line 24 calls analyze_and_prepare_wave_data(dt_step=0.1): the required
\* parameter file_path (wave_processing.py line 15) is not bound
MainBindsFilePath == FALSE

\* lines 23-27: a call that leaves a required parameter unbound raises TypeError
\* before the body runs; the except clause prints and exits with status 1
MainSetup ==
    /\ prog = "main" /\ pc = "setup"
    /\ IF MainBindsFilePath
       THEN /\ analyze_and_prepare_wave_data(RInt(ResampleStep))
            /\ pc' = "optimize"
            /\ UNCHANGED <<exit_code, diag>>
       ELSE /\ load_result' = [outcome |-> "TypeError",
                               error |-> "missing 1 required positional argument: 'file_path'"]
            /\ UNCHANGED wave_state
            /\ pc' = "exited"
            /\ exit_code' = 1
            /\ diag' = "Could not analyze wave data"
    /\ UNCHANGED <<switches, sweep_lists, eret, aret, file, optimization_imported,
                   optimization_WAVE_TIME, imported_before_load, sol_table, ret,
                   earlier_ret, fret, prog, sweep_pos, evaluated>>

----------------------------------------------------------------------------
(* param_scan.py, main() *)

\* lines 98-111 (7 masses and 8 dampings in the code)
SweepMasses == <<20, 110, 200>>
SweepDampings == <<100, 900>>

\* lines 123-125: for c in dampings: for m in masses: x = [m, c]
SweepGrid ==
    [n \in 1..(Len(SweepDampings) * Len(SweepMasses)) |->
        <<SweepMasses[((n - 1) % Len(SweepMasses)) + 1],
          SweepDampings[((n - 1) \div Len(SweepMasses)) + 1]>>]

\* lines 16-27
ParamScanImports ==
    /\ prog = "param_scan" /\ pc = "start"
    /\ ImportModules
    /\ pc' = "setup"
    /\ UNCHANGED <<switches, sweep_lists, eret, aret, file, wave_state, load_result, sol_table,
                   ret, earlier_ret, fret, prog, exit_code, diag, sweep_pos, evaluated>>

ExitsOnLoadResult_ignored(returned) == FALSE

\* line 85: if not analyze_and_prepare_wave_data(file_path, dt_step=0.1)
ExitsOnLoadResult(returned) == ~returned

\* lines 79-87
ParamScanSetup ==
    /\ prog = "param_scan" /\ pc = "setup"
    /\ analyze_and_prepare_wave_data(RInt(ResampleStep))
    /\ IF ExitsOnLoadResult(load_result'.outcome = "True")
       THEN /\ pc' = "exited"
            /\ exit_code' = 1
            /\ diag' = "Failed to load wave data. Exiting."
       ELSE /\ pc' = "sweep"
            /\ UNCHANGED <<exit_code, diag>>
    /\ UNCHANGED <<switches, sweep_lists, eret, aret, file, optimization_imported,
                   optimization_WAVE_TIME, imported_before_load, sol_table, ret,
                   earlier_ret, fret, prog, sweep_pos, evaluated>>

SkipsCase_above_penalty(f_val) == RLt(RInt(OPTIMIZATION_PENALTY), f_val)

\* line 130: if f_val >= OPTIMIZATION_PENALTY * 0.5: ... continue
SkipsCase(f_val) == RLe(RMul(RInt(OPTIMIZATION_PENALTY), Rat(1, 2)), f_val)

\* lines 138-139: power_W = -f_val; power_kW = power_W / 1000.0.  The objective
\* of the model is in kW already, so the division by 1000 is the change of unit
PowerKW(f_val) == RNeg(f_val)

\* lines 123-147: one case of the sweep; an exception raised by the objective
\* is not caught and ends the program with a traceback (status 1).  The sweep
\* imports the objective under the name objective_function; the objective
\* optimization.py defines is objective_function_enhanced, which this step calls.
ParamScanSweepStep ==
    /\ prog = "param_scan" /\ pc = "sweep"
    /\ sweep_pos <= Len(SweepGrid)
    /\ \E sol \in Outcomes \cup {NoSol} : ObjectiveCall(SweepGrid[sweep_pos], sol, FALSE)
    /\ IF ret'.res.kind = "raise"
       THEN /\ pc' = "crashed"
            /\ exit_code' = 1
            /\ diag' = ret'.res.exc
            /\ UNCHANGED <<sweep_pos, sweep_lists>>
       ELSE /\ IF SkipsCase(ret'.res.value)
               THEN UNCHANGED sweep_lists
               ELSE /\ mass_values' = Append(mass_values, SweepGrid[sweep_pos][1])
                    /\ damping_values' = Append(damping_values, SweepGrid[sweep_pos][2])
                    /\ power_values' = Append(power_values, PowerKW(ret'.res.value))
            /\ sweep_pos' = sweep_pos + 1
            /\ pc' = IF sweep_pos = Len(SweepGrid) THEN "plot" ELSE "sweep"
            /\ UNCHANGED <<exit_code, diag>>
    /\ UNCHANGED <<switches, eret, aret, file, wave_state, optimization_imported,
                   optimization_WAVE_TIME, imported_before_load, load_result, fret, prog>>

----------------------------------------------------------------------------
(* Specification *)

Programs == {"main", "param_scan"} \cup Clients

StartWith(programs, files, pto, radiation, drag) ==
    /\ PTO_EFFICIENCY \in pto
    /\ RADIATION_DAMPING \in radiation
    /\ VISCOUS_DRAG \in drag
    /\ eret = NoEquationCall
    /\ aret = NoAnalysis
    /\ file \in files
    /\ config_WAVE_TIME = <<>>
    /\ config_WAVE_VERTICAL_DISPLACEMENT = <<>>
    /\ config_WAVE_TIME_COARSE = <<>>
    /\ config_WAVE_VERTICAL_DISPLACEMENT_COARSE = <<>>
    /\ config_wave_interp = None
    /\ optimization_imported = FALSE
    /\ optimization_WAVE_TIME = <<>>
    /\ imported_before_load = FALSE
    /\ load_result = [outcome |-> "none", error |-> ""]
    /\ sol_table = {}
    /\ ret = NoRet
    /\ earlier_ret = NoRet
    /\ fret = NoLookup
    /\ prog \in programs
    /\ pc = "start"
    /\ exit_code = -1
    /\ diag = ""
    /\ sweep_pos = 1
    /\ mass_values = <<>>
    /\ damping_values = <<>>
    /\ power_values = <<>>
    /\ evaluated = FALSE

\* config.py lines 17-18 set both dynamics switches to True
Start(programs, files, pto) == StartWith(programs, files, pto, {TRUE}, {TRUE})

\* a client that loads, imports and evaluates candidates, in any order
Init == Start({"evaluate"}, Files, BOOLEAN)

Next ==
    \/ ClientImport
    \/ ClientLoad
    \/ ClientObjective

Spec == Init /\ [][Next]_vars

\* the same client comparing its calls, with the switch as config.py sets it
InitRepeat == Start({"repeat"}, {NoFile, ShortFile, LongFile}, {TRUE})

NextRepeat ==
    \/ ClientImport
    \/ ClientLoad
    \/ ClientObjectiveAgain

SpecRepeat == InitRepeat /\ [][NextRepeat]_vars

\* a client of the forcing lookup
InitLookup == Start({"lookup"}, Files, BOOLEAN)

NextLookup ==
    \/ ClientLoad
    \/ ClientForcing

SpecLookup == InitLookup /\ [][NextLookup]_vars

\* a client of the equation of motion, under every setting of its two switches
InitDynamics == StartWith({"dynamics"}, {NoFile, ShortFile, LongFile}, {TRUE},
                          BOOLEAN, BOOLEAN)

NextDynamics ==
    \/ ClientLoad
    \/ ClientEquation

SpecDynamics == InitDynamics /\ [][NextDynamics]_vars

\* a client of the peak analysis, with no wave data loaded
InitAnalysis == Start({"analysis"}, {NoFile}, {TRUE})

NextAnalysis == ClientAnalysis

SpecAnalysis == InitAnalysis /\ [][NextAnalysis]_vars

\* a client of every operation that reads the shared wave state
InitShared == Start({"share"}, {NoFile, ShortFile, LongFile}, {TRUE})

NextShared ==
    \/ ClientImport
    \/ ClientLoad
    \/ ShareForcing
    \/ ShareEquation
    \/ ShareObjective
    \/ ShareAnalysis

SpecShared == InitShared /\ [][NextShared]_vars

\* the parameter sweep, and a client of the objective, side by side
InitSweep == Start({"evaluate", "param_scan"}, Files, BOOLEAN)

NextSweep ==
    \/ ClientImport
    \/ ClientLoad
    \/ ClientObjective
    \/ ParamScanImports
    \/ ParamScanSetup
    \/ ParamScanSweepStep

SpecSweep == InitSweep /\ [][NextSweep]_vars

\* the two programs of the repository
InitWorkflow == Start({"main", "param_scan"}, Files, BOOLEAN)

NextWorkflow ==
    \/ MainImports
    \/ MainSetup
    \/ ParamScanImports
    \/ ParamScanSetup
    \/ ParamScanSweepStep

SpecWorkflow == InitWorkflow /\ [][NextWorkflow]_vars

----------------------------------------------------------------------------
(* Claims.  The expected values below are stated from the configuration     *)
(* (config.py) and the data of the call, not through the operators of the   *)
(* objective.                                                               *)

Called == ret.res.kind # "none"
CallMass == ret.call.params[1]
CallDamping == ret.call.params[2]
MassOutside == CallMass < MASS_BOUNDS[1] \/ CallMass > MASS_BOUNDS[2]
DampingOutside == CallDamping < DAMPING_BOUNDS[1] \/ CallDamping > DAMPING_BOUNDS[2]
ReturnedPenalty == ret.res.kind = "return" /\ ret.res.value = RInt(OPTIMIZATION_PENALTY)
Simulated == ret.res.sol.status # "none"
Integrated == ret.res.sol.status = "ok"

\* time of evaluation sample i on the uniform grid over t_span
SampleTime(t_span, i) ==
    RAdd(t_span[1], RDiv(RMul(RInt(i - 1), RSub(t_span[2], t_span[1])),
                         RInt(EvalPoints - 1)))

\* the samples with t > t_start + STEADY_STATE_CUTOFF
SteadyTail(t_span) ==
    {i \in 1..EvalPoints :
        RLt(RAdd(t_span[1], RInt(STEADY_STATE_CUTOFF)), SampleTime(t_span, i))}

DisplacementWithin(i) ==
    /\ RLe(ret.res.sol.z[i], MAX_DISPLACEMENT)
    /\ RLe(RNeg(MAX_DISPLACEMENT), ret.res.sol.z[i])

PtoForce(i) == RMul(RInt(CallDamping), ret.res.sol.z_dot[i])

ForceWithin(i) ==
    /\ RLe(PtoForce(i), RInt(MAX_PTO_FORCE))
    /\ RLe(RInt(-MAX_PTO_FORCE), PtoForce(i))

WithinLimits == \A i \in 1..EvalPoints : DisplacementWithin(i) /\ ForceWithin(i)

\* electrical power at sample i: eta_pto * c_pto * velocity^2 with the switch on
ElectricalPower(i) ==
    LET v == ret.res.sol.z_dot[i]
        mechanical == RMul(RInt(CallDamping), RMul(v, v))
    IN  IF PTO_EFFICIENCY THEN RMul(ret.call.buoy.eta_pto, mechanical) ELSE mechanical

RECURSIVE PowerSum(_)
PowerSum(S) ==
    IF S = {} THEN RInt(0)
    ELSE LET i == CHOOSE j \in S : TRUE
         IN  RAdd(ElectricalPower(i), PowerSum(S \ {i}))

\* minus the mean electrical power over the samples in the non-empty set S
NegMeanPower(S) == RNeg(RDiv(PowerSum(S), RInt(Cardinality(S))))

\* C1: a candidate with mass or damping outside the configured bounds gets
\* exactly the penalty, and no simulation is started for it; a candidate on a
\* bound is not rejected by the bounds check.
C1_OutOfBoundsPenalised ==
    Called =>
        /\ (MassOutside \/ DampingOutside) => (ReturnedPenalty /\ ~Simulated)
        /\ ~(MassOutside \/ DampingOutside) => ret.res.stage # "bounds"

\* an out-of-bounds call made when wave data is bound (a simulation could run)
C1_Witness ==
    /\ Called /\ DampingOutside /\ ReturnedPenalty
    /\ Len(optimization_WAVE_TIME) > 0

\* a candidate exactly on both lower bounds that went on to be scored
C1_WitnessOnBound ==
    /\ Called /\ CallMass = MASS_BOUNDS[1] /\ CallDamping = DAMPING_BOUNDS[1]
    /\ ret.res.stage = "score"

\* C2 (as claimed): when the modules were imported first and the load then
\* succeeded, a later in-bounds objective call simulates over
\* [first loaded sample time, last loaded sample time].
C2_ObjectiveUsesLoadedRange ==
    (/\ Called /\ imported_before_load /\ ~ret.call.wave.isNone
     /\ ~(MassOutside \/ DampingOutside))
        => /\ ret.res.kind = "return"
           /\ ret.res.t_span = <<ret.call.wave.x[1], ret.call.wave.x[Len(ret.call.wave.x)]>>

\* C3: when solve_ivp reports failure or raises, the objective returns the
\* penalty and raises nothing.
C3_IntegrationFailurePenalised ==
    (Called /\ ret.res.sol.status \in {"failed", "raised"}) => ReturnedPenalty

C3_Witness ==
    /\ Called /\ ret.res.sol.status = "raised" /\ ReturnedPenalty
    /\ ~(MassOutside \/ DampingOutside)

C6_ValidDataStartsOptimisation ==
    (prog = "main" /\ file \in ValidFiles /\ pc \notin {"start", "setup"})
        => (pc = "optimize" /\ exit_code = -1)

\* C7: if any sampled displacement or PTO force exceeds its limit, transient
\* samples included, the objective returns exactly the penalty; so a
\* non-penalty score has every sample within both limits.
C7_LimitsEnforced ==
    (Called /\ Integrated) =>
        /\ ~WithinLimits => ReturnedPenalty
        /\ (ret.res.kind = "return" /\ ret.res.value # RInt(OPTIMIZATION_PENALTY))
               => WithinLimits

\* rejected for a displacement of -4 m at the first (transient) sample of a
\* record with a non-empty tail, every other sample within the limits
C7_Witness ==
    /\ Called /\ Integrated /\ ReturnedPenalty
    /\ ~DisplacementWithin(1)
    /\ \A i \in 2..EvalPoints : DisplacementWithin(i) /\ ForceWithin(i)
    /\ ForceWithin(1)
    /\ 1 \notin SteadyTail(ret.res.t_span)
    /\ SteadyTail(ret.res.t_span) # {}

C9_Repeatable ==
    (Called /\ earlier_ret.res.kind # "none" /\ ret.call = earlier_ret.call)
        => /\ ret.res.kind = earlier_ret.res.kind
           /\ ret.res.value = earlier_ret.res.value
           /\ ret.res.exc = earlier_ret.res.exc

\* a scored call repeated after the other in-bounds candidate was simulated too
C9_Witness ==
    /\ Called /\ earlier_ret.res.kind # "none" /\ ret.call = earlier_ret.call
    /\ ret.res.stage = "score" /\ ret.res.value = earlier_ret.res.value
    /\ Cardinality(sol_table) = 2

\* the line through the samples j and j+1 of the loaded data, at time t
OnSegment(wave, j, t) ==
    RAdd(wave.y[j],
         RDiv(RMul(RSub(wave.y[j + 1], wave.y[j]), RSub(t, wave.x[j])),
              RSub(wave.x[j + 1], wave.x[j])))

\* C10: with wave data loaded, the forcing lookup returns exactly 0 for t
\* before the first or after the last sample time, for every k, and k times
\* the linearly interpolated elevation for t inside the range.
C10_ForcingZeroOutsideRange ==
    (fret.called /\ ~fret.wave.isNone) =>
        LET wave == fret.wave
            n == Len(wave.x)
        IN  IF RLt(fret.t, wave.x[1]) \/ RLt(wave.x[n], fret.t)
            THEN fret.value = RInt(0)
            ELSE \E j \in 1..(n - 1) :
                    /\ RLe(wave.x[j], fret.t) /\ RLe(fret.t, wave.x[j + 1])
                    /\ fret.value = RMul(fret.k_hydro, OnSegment(wave, j, fret.t))

\* a lookup after the last sample, whose elevation is not 0, that returned 0
C10_Witness ==
    /\ fret.called /\ ~fret.wave.isNone
    /\ RLt(fret.wave.x[Len(fret.wave.x)], fret.t)
    /\ fret.wave.y[Len(fret.wave.y)] # RInt(0)
    /\ fret.k_hydro # RInt(0)
    /\ fret.value = RInt(0)

\* C11 (as claimed): a candidate with PTO damping 0 gets a score of about 0
\* (within 1 kW of 0).
C11_ZeroDampingScoresZero ==
    (Called /\ CallDamping = 0)
        => /\ ret.res.kind = "return"
           /\ RLe(RAbs(ret.res.value), RInt(1))

\* C11 (amended): damping 0 lies below the lower damping bound, so a candidate
\* with PTO damping 0 gets exactly the penalty; no simulation is run and no
\* power is averaged for it.
C11_ZeroDampingPenalised ==
    (Called /\ CallDamping = 0)
        => /\ ReturnedPenalty
           /\ ~Simulated
           /\ ret.res.stage = "bounds"

\* damping 0 with a mass inside its bounds, evaluated with wave data bound
C11_Witness ==
    /\ Called /\ CallDamping = 0 /\ ~MassOutside
    /\ Len(optimization_WAVE_TIME) > 0
    /\ ReturnedPenalty

\* C12: with viscous drag enabled and a positive drag coefficient, the drag
\* force of the equation of motion is k_drag * v^2 in size and opposite in sign
\* to the velocity v (0 for v = 0); with viscous drag disabled it is 0.
C12_DragOpposesVelocity ==
    (eret.called /\ RLt(RInt(0), eret.buoy.k_drag)) =>
        LET v == eret.y[2]
            F_drag == eret.out.F_drag
        IN  IF VISCOUS_DRAG
            THEN /\ RAbs(F_drag) = RMul(eret.buoy.k_drag, RMul(v, v))
                 /\ v.num > 0 => F_drag.num < 0
                 /\ v.num < 0 => F_drag.num > 0
                 /\ v.num = 0 => F_drag.num = 0
            ELSE F_drag = RInt(0)

\* a falling buoy (v = -3/2 m/s) pushed upwards by the drag
C12_Witness ==
    /\ eret.called /\ VISCOUS_DRAG
    /\ eret.y[2] = Rat(-3, 2)
    /\ eret.out.F_drag.num > 0

Analysed == aret.called
Peak == aret.out.returned
PeakFound == Peak.kind = "return" /\ ~Peak.none
NoPeakFound == Peak.kind = "return" /\ Peak.none

\* t_start + steady_state_cutoff for the samples of the last analysis
AnalysisCutoffTime == RAdd(aret.t_eval[1], RInt(STEADY_STATE_CUTOFF))

\* the positions in jerk_roots of the roots after the cutoff
SurvivingRoots ==
    {k \in 1..Len(aret.out.jerk_roots) : RLt(AnalysisCutoffTime, aret.out.jerk_roots[k])}

\* C13: a returned peak time is strictly greater than t_start +
\* steady_state_cutoff, and a jerk root exactly at the cutoff is not among the
\* roots the peak is chosen from.
C13_PeakAfterCutoff ==
    Analysed =>
        /\ PeakFound => RLt(AnalysisCutoffTime, Peak.time)
        /\ \A k \in 1..Len(aret.out.roots_steady) :
              aret.out.roots_steady[k] # AnalysisCutoffTime

\* a jerk root exactly at the cutoff, with the larger acceleration, is passed
\* over for a later root
C13_Witness ==
    /\ Analysed /\ PeakFound
    /\ \E k \in 1..Len(aret.out.jerk_roots) :
          /\ aret.out.jerk_roots[k] = AnalysisCutoffTime
          /\ RLt(RAbs(Peak.value),
                 RAbs(SplineValue(aret.out.accel_spline, aret.out.jerk_roots[k])))
    /\ RLt(AnalysisCutoffTime, Peak.time)

\* the jerk has the same sign at every pair of adjacent samples
NoJerkSignChange ==
    \A i \in 1..(Len(aret.out.jerk_values) - 1) :
        Sign(aret.out.jerk_values[i]) = Sign(aret.out.jerk_values[i + 1])

AtRest ==
    \A i \in 1..Len(aret.t_eval) :
        /\ aret.z[i] = RInt(0) /\ aret.z_dot[i] = RInt(0)
        /\ aret.out.z_double_dot[i] = RInt(0)

\* C14: the analysis always returns; it returns (None, None) exactly when no
\* jerk sign change exists between adjacent samples or no refined root is
\* after the cutoff; in particular for a buoy at rest with zero acceleration.
C14_NoPeakIffNoSurvivingRoot ==
    Analysed =>
        /\ Peak.kind = "return"
        /\ Peak.none <=> (NoJerkSignChange \/ SurvivingRoots = {})
        /\ AtRest => NoPeakFound

\* a sign change whose root lies in the transient: (None, None), nothing raised
C14_Witness ==
    /\ Analysed /\ ~NoJerkSignChange
    /\ aret.out.jerk_roots # <<>> /\ SurvivingRoots = {}
    /\ NoPeakFound

\* the buoy at rest
C14_WitnessAtRest == Analysed /\ AtRest /\ NoPeakFound

\* C15: when a root survives the filter, the analysis returns a surviving root
\* together with the acceleration there; no surviving root has a larger
\* absolute acceleration, and none before it has an equal one.
C15_LargestAbsoluteAcceleration ==
    (Analysed /\ SurvivingRoots # {}) =>
        /\ PeakFound
        /\ \E k \in SurvivingRoots :
              /\ Peak.time = aret.out.jerk_roots[k]
              /\ Peak.value = SplineValue(aret.out.accel_spline, aret.out.jerk_roots[k])
              /\ \A l \in SurvivingRoots :
                    LET a_l == SplineValue(aret.out.accel_spline, aret.out.jerk_roots[l])
                    IN  /\ RLe(RAbs(a_l), RAbs(Peak.value))
                        /\ l < k => RLt(RAbs(a_l), RAbs(Peak.value))

\* two surviving roots; the later one, a trough, is the larger in size
C15_Witness ==
    /\ Analysed /\ Cardinality(SurvivingRoots) = 2 /\ PeakFound
    /\ Peak.time = aret.out.roots_steady[2]
    /\ Peak.value.num < 0
    /\ aret.out.accel_at_roots[1].num < 0
    /\ RLt(RAbs(aret.out.accel_at_roots[1]), RAbs(Peak.value))

\* two surviving roots of equal size: the first is returned
C15_WitnessTie ==
    /\ Analysed /\ Cardinality(SurvivingRoots) = 2 /\ PeakFound
    /\ RAbs(aret.out.accel_at_roots[1]) = RAbs(aret.out.accel_at_roots[2])
    /\ aret.out.roots_steady[1] # aret.out.roots_steady[2]
    /\ Peak.time = aret.out.roots_steady[1]

\* C19 (as claimed): a refinement aborted for a near-zero jerk slope records
\* the midpoint of its bracket (or nothing), never a partly refined iterate.
C19_AbortRecordsMidpoint ==
    Analysed =>
        \A k \in 1..Len(aret.out.refinements) :
            aret.out.refinements[k].aborted
                => aret.out.jerk_roots[k] = aret.out.refinements[k].t_mid

\* C18: the wave data is read-only for its readers.  A step that changes the
\* stored wave times, wave elevations, interpolation function or feature
\* toggles is a successful call of analyze_and_prepare_wave_data, and it is no
\* call of the forcing lookup, the equation of motion, the objective function
\* or find_max_acceleration; each of these calls is handed the buoy parameters
\* of the driver unchanged.
C18_WaveDataReadOnly ==
    [][ /\ (wave_state' # wave_state \/ switches' # switches)
           => /\ load_result'.outcome = "True"
              /\ UNCHANGED <<fret, eret, aret, ret, sol_table>>
        /\ (fret' # fret \/ eret' # eret \/ aret' # aret \/ ret' # ret)
           => /\ UNCHANGED <<wave_state, switches>>
              /\ eret'.buoy = BuoyArgs /\ aret'.buoy = BuoyArgs
              /\ ret'.call.buoy = BuoyArgs ]_vars

\* loaded wave data that all four operations have read and that is still as
\* the loader stored it
C18_Witness ==
    /\ load_result.outcome = "True"
    /\ wave_state = LET out == LoadOutcome(file, RInt(ResampleStep))
                    IN  <<out.WAVE_TIME, out.WAVE_VERTICAL_DISPLACEMENT,
                          out.WAVE_TIME_COARSE, out.WAVE_VERTICAL_DISPLACEMENT_COARSE,
                          out.wave_interp>>
    /\ fret.called /\ fret.wave = config_wave_interp
    /\ eret.called /\ eret.wave = config_wave_interp
    /\ aret.called /\ aret.wave = config_wave_interp
    /\ Integrated /\ ret.call.wave = config_wave_interp

\* the wave force at time t stated from the loaded samples: k times the
\* elevation on the line between the two samples around t, 0 outside the record
\* and 0 with no wave data
WaveForceAt(wave, k, t) ==
    IF wave.isNone THEN RInt(0)
    ELSE IF RLt(t, wave.x[1]) \/ RLt(wave.x[Len(wave.x)], t) THEN RInt(0)
    ELSE LET j == CHOOSE i \in 1..(Len(wave.x) - 1) :
                      RLe(wave.x[i], t) /\ RLe(t, wave.x[i + 1])
         IN  RMul(k, OnSegment(wave, j, t))

\* C21: the equation of motion returns [velocity, acceleration] with
\* acceleration * (m_buoy + added mass) = F_wave + F_hydrostatic + F_pto +
\* F_radiation + F_drag, where F_wave is the forcing at t, F_hydrostatic =
\* -k_hydrostatic * z, F_pto = -c_pto * velocity, and the radiation and drag
\* terms are exactly 0 when their switch is off; at z = 0, velocity = 0 with
\* zero wave forcing it returns [0, 0].
C21_EquationOfMotion ==
    eret.called =>
        LET z == eret.y[1]
            v == eret.y[2]
            F_wave == WaveForceAt(eret.wave, eret.buoy.k_hydro, eret.t)
            F_hydrostatic == RNeg(RMul(eret.buoy.k_hydro, z))
            F_pto == RNeg(RMul(eret.c_pto, v))
            F_radiation == IF RADIATION_DAMPING THEN RNeg(RMul(eret.buoy.c_rad, v))
                           ELSE RInt(0)
            F_drag == IF VISCOUS_DRAG
                      THEN RNeg(RMul(eret.buoy.k_drag, RMul(RAbs(v), v)))
                      ELSE RInt(0)
            forces == RAdd(F_wave, RAdd(F_hydrostatic, RAdd(F_pto,
                                                           RAdd(F_radiation, F_drag))))
        IN  /\ eret.out.returned[1] = v
            /\ RMul(eret.out.returned[2], RAdd(eret.m_buoy, eret.buoy.m_added)) = forces
            /\ eret.out.F_wave = F_wave
            /\ eret.out.F_hydrostatic = F_hydrostatic
            /\ eret.out.F_pto = F_pto
            /\ ~RADIATION_DAMPING => eret.out.F_radiation = RInt(0)
            /\ ~VISCOUS_DRAG => eret.out.F_drag = RInt(0)
            /\ (z = RInt(0) /\ v = RInt(0) /\ F_wave = RInt(0))
                  => eret.out.returned = <<RInt(0), RInt(0)>>

\* a moving, displaced buoy in a wave with radiation damping off and drag on:
\* every term but the radiation force is at work
C21_Witness ==
    /\ eret.called /\ ~eret.wave.isNone
    /\ ~RADIATION_DAMPING /\ VISCOUS_DRAG
    /\ eret.out.F_wave # RInt(0)
    /\ eret.y[1] # RInt(0) /\ eret.y[2] # RInt(0)
    /\ eret.out.F_radiation = RInt(0) /\ eret.out.F_drag # RInt(0)
    /\ eret.out.returned[2] # RInt(0)

\* a buoy at rest at the still-water level while the loaded wave passes
\* through zero
C21_WitnessRest ==
    /\ eret.called /\ ~eret.wave.isNone
    /\ eret.y = <<RInt(0), RInt(0)>>
    /\ eret.out.returned = <<RInt(0), RInt(0)>>

C22_WitnessPenalised ==
    /\ Called /\ ret.res.kind = "return" /\ Integrated
    /\ ret.res.value = RInt(OPTIMIZATION_PENALTY)
    /\ SkipsCase(ret.res.value)

\* the sample pairs (i, i+1) of the last analysis where the jerk changes sign
JerkSignChanges ==
    {i \in 1..(Len(aret.t_eval) - 1) :
        Sign(aret.out.jerk_values[i]) # Sign(aret.out.jerk_values[i + 1])}

\* C23: for every adjacent sample pair where the jerk changes sign exactly one
\* root is recorded, in the order of the pairs; its refinement ran at most 5
\* Newton iterations, the root lies in the closed interval [t_i, t_i+1], and
\* when an iterate left the interval the root recorded is the midpoint of the
\* interval.
C23_RootsStayInBracket ==
    Analysed =>
        LET refinements == aret.out.refinements
            jerk_roots == aret.out.jerk_roots
        IN  /\ Len(jerk_roots) = Cardinality(JerkSignChanges)
            /\ Len(refinements) = Len(jerk_roots)
            /\ \A k \in 1..Len(refinements) :
                  LET i == refinements[k].i
                      lo == aret.t_eval[i]
                      hi == aret.t_eval[i + 1]
                  IN  /\ i \in JerkSignChanges
                      /\ k > 1 => refinements[k - 1].i < i
                      /\ jerk_roots[k] = refinements[k].root
                      /\ refinements[k].iterations <= 5
                      /\ RLe(lo, jerk_roots[k]) /\ RLe(jerk_roots[k], hi)
                      /\ refinements[k].reset =>
                            jerk_roots[k] = RDiv(RAdd(lo, hi), RInt(2))

\* an analysis with a root the refinement moved off the midpoint and kept
\* inside its interval, and a root reset to the midpoint
C23_Witness ==
    /\ Analysed
    /\ \E k \in 1..Len(aret.out.refinements) :
          LET r == aret.out.refinements[k]
          IN  /\ ~r.reset /\ ~r.aborted /\ r.iterations = 5
              /\ r.root # r.t_mid
              /\ RLt(aret.t_eval[r.i], r.root) /\ RLt(r.root, aret.t_eval[r.i + 1])

\* a root reset to the midpoint after the first iterate left the interval
C23_WitnessReset ==
    /\ Analysed
    /\ \E k \in 1..Len(aret.out.refinements) :
          LET r == aret.out.refinements[k]
          IN  r.reset /\ r.iterations = 1 /\ aret.out.jerk_roots[k] = r.t_mid

====
